---- MODULE Spec2Model ----
(***************************************************************************)
(* Citation resolution of the article pipeline:                            *)
(*   pipeline/processors/url_validator.py   (CitationURLValidator)         *)
(*   pipeline/blog_generation/stage_04_citations.py  (CitationsStage)      *)
(*                                                                         *)
(* Text is modelled as a tuple of one-character strings.  Three kinds of   *)
(* element stand for more than one character of the Python string: the     *)
(* scheme prefixes "http://" and "https://", and "ndash" for the en dash   *)
(* (U+2013).  Every regular expression and string method of the source is  *)
(* an operator over such tuples.                                           *)
(***************************************************************************)
EXTENDS Integers, Sequences, FiniteSets, TLC

\* ------------------------------------------------------------------------
\* String helpers (Python str methods)
\* ------------------------------------------------------------------------

Schemes == {"http://", "https://"}

StartsWith(s, p) == Len(s) >= Len(p) /\ SubSeq(s, 1, Len(p)) = p

EndsWith(s, p) == Len(s) >= Len(p) /\ SubSeq(s, Len(s) - Len(p) + 1, Len(s)) = p

\* `p in s`
Contains(s, p) == \E i \in 1..(Len(s) - Len(p) + 1) : SubSeq(s, i, i + Len(p) - 1) = p

\* position of the first element of s that is in set cs, Len(s)+1 when none
FirstIn(s, cs) ==
    IF \E i \in 1..Len(s) : s[i] \in cs
    THEN CHOOSE i \in 1..Len(s) : s[i] \in cs /\ \A j \in 1..(i - 1) : s[j] \notin cs
    ELSE Len(s) + 1

\* position of the first element of s that is not in set cs, Len(s)+1 when none
FirstNotIn(s, cs) ==
    IF \E i \in 1..Len(s) : s[i] \notin cs
    THEN CHOOSE i \in 1..Len(s) : s[i] \notin cs /\ \A j \in 1..(i - 1) : s[j] \in cs
    ELSE Len(s) + 1

\* position of the last element of s that is not in set cs, 0 when none
LastNotIn(s, cs) ==
    IF \E i \in 1..Len(s) : s[i] \notin cs
    THEN CHOOSE i \in 1..Len(s) : s[i] \notin cs /\ \A j \in (i + 1)..Len(s) : s[j] \in cs
    ELSE 0

LStrip(s, cs) == SubSeq(s, FirstNotIn(s, cs), Len(s))

RStrip(s, cs) == SubSeq(s, 1, LastNotIn(s, cs))

Strip(s, cs) == RStrip(LStrip(s, cs), cs)

Space == {" "}

UpperChars == <<"A","B","C","D","E","F","G","H","I","J","K","L","M",
                "N","O","P","Q","R","S","T","U","V","W","X","Y","Z">>

LowerChars == <<"a","b","c","d","e","f","g","h","i","j","k","l","m",
                "n","o","p","q","r","s","t","u","v","w","x","y","z">>

LowerChar(c) ==
    IF \E i \in 1..26 : UpperChars[i] = c
    THEN LowerChars[CHOOSE i \in 1..26 : UpperChars[i] = c]
    ELSE c

\* str.lower()
Lower(s) == [i \in 1..Len(s) |-> LowerChar(s[i])]

\* ------------------------------------------------------------------------
\* urllib.parse.urlparse, as far as the validator reads it
\* ------------------------------------------------------------------------

HasScheme(url) == url # <<>> /\ url[1] \in Schemes

\* what follows "scheme://", or follows a leading "//"; <<>> when the text
\* has neither (urlparse then reports an empty netloc)
AfterSlashes(url) ==
    IF HasScheme(url) THEN Tail(url)
    ELSE IF StartsWith(url, <<"/","/">>) THEN SubSeq(url, 3, Len(url))
    ELSE <<>>

\* urlparse(url).netloc: up to the first "/", "?" or "#"
Netloc(url) ==
    LET rest == AfterSlashes(url)
    IN  SubSeq(rest, 1, FirstIn(rest, {"/", "?", "#"}) - 1)

\* urlparse raises ValueError("Invalid IPv6 URL") when exactly one of the
\* brackets is in the netloc
UrlParseRaises(url) ==
    LET n == Netloc(url)
    IN  (\E i \in 1..Len(n) : n[i] = "[") # (\E i \in 1..Len(n) : n[i] = "]")

\* ------------------------------------------------------------------------
\* Domain filter
\* ------------------------------------------------------------------------

FORBIDDEN_HOSTS == { <<"v","e","r","t","e","x","a","i","s","e","a","r","c","h",".","c","l","o","u","d",".","g","o","o","g","l","e",".","c","o","m">>, <<"c","l","o","u","d",".","g","o","o","g","l","e",".","c","o","m">> }

NormalizeHostname(hostname) ==
    IF hostname = <<>> THEN <<>>
    ELSE LET h == LStrip(Lower(hostname), {"."})
         IN  IF StartsWith(h, <<"w","w","w",".">>) THEN SubSeq(h, 5, Len(h)) ELSE h

IsSubdomain(host, root) ==
    /\ host # <<>>
    /\ root # <<>>
    /\ EndsWith(host, <<".">> \o root)

\* competitor if competitor.startswith("http") else "https://" + competitor
CompetitorUrl(competitor) ==
    IF HasScheme(competitor) \/ StartsWith(competitor, <<"h","t","t","p">>)
    THEN competitor
    ELSE <<"https://">> \o competitor

\* the loop over competitors from entry k on; an exception raised by
\* urlparse on an entry ends the whole call with False
RECURSIVE CompetitorLoop(_, _, _)
CompetitorLoop(host, competitors, k) ==
    IF k > Len(competitors) THEN FALSE
    ELSE LET comp_url == CompetitorUrl(competitors[k])
         IN  IF UrlParseRaises(comp_url) THEN FALSE
             ELSE LET comp_host == NormalizeHostname(Netloc(comp_url))
                  IN  IF host = comp_host \/ IsSubdomain(host, comp_host)
                      THEN TRUE
                      ELSE CompetitorLoop(host, competitors, k + 1)

ShouldFilterUrl(url, company_url, competitors) ==
    IF UrlParseRaises(url) THEN FALSE
    ELSE LET host == NormalizeHostname(Netloc(url))
         IN  IF host \in FORBIDDEN_HOSTS THEN TRUE
             ELSE IF company_url # <<>> /\ UrlParseRaises(company_url) THEN FALSE
             ELSE IF /\ company_url # <<>>
                     /\ LET company_host == NormalizeHostname(Netloc(company_url))
                        IN  host = company_host \/ IsSubdomain(host, company_host)
                  THEN TRUE
                  ELSE CompetitorLoop(host, competitors, 1)

\* ------------------------------------------------------------------------
\* Citation parser (CitationsStage._parse_sources)
\* ------------------------------------------------------------------------

Digits == <<"0","1","2","3","4","5","6","7","8","9">>

IsDigit(c) == \E i \in 1..10 : Digits[i] = c

DigitVal(c) == (CHOOSE i \in 1..10 : Digits[i] = c) - 1

\* int() of a run of digits
RECURSIVE IntOf(_)
IntOf(ds) ==
    IF ds = <<>> THEN 0
    ELSE 10 * IntOf(SubSeq(ds, 1, Len(ds) - 1)) + DigitVal(ds[Len(ds)])

Dashes == {"ndash", "-"}

\* \[(\d+)\]:  at the start of the line: the position of the ":", 0 when
\* the line does not start with a marker
MarkerEnd(line) ==
    IF Len(line) >= 4 /\ line[1] = "["
    THEN LET k == FirstNotIn(Tail(line), {Digits[i] : i \in 1..10})
         IN  IF k >= 2 /\ k + 2 <= Len(line) /\ line[k + 1] = "]" /\ line[k + 2] = ":"
             THEN k + 2
             ELSE 0
    ELSE 0

MarkerNumber(line) == IntOf(SubSeq(line, 2, MarkerEnd(line) - 2))

\* the text after the marker and \s*
AfterMarker(line) == LStrip(SubSeq(line, MarkerEnd(line) + 1, Len(line)), Space)

NoMatch == [matched |-> FALSE]

\* r"\[(\d+)\]:\s*(https?://[^\s]+?)(?:\s+[–\-]\s+|\s+)(.+)"
\* The lazy URL group can only end where whitespace follows, so it is the
\* whole run of non-space characters after the scheme.
PrimaryMatch(line) ==
    IF MarkerEnd(line) = 0 THEN NoMatch
    ELSE LET rest == AfterMarker(line)
         IN  IF ~HasScheme(rest) THEN NoMatch
             ELSE LET e     == FirstIn(rest, Space)
                      after == LStrip(SubSeq(rest, e, Len(rest)), Space)
                  IN  IF e < 3 \/ e > Len(rest) \/ after = <<>> THEN NoMatch
                      ELSE LET dashed == /\ after[1] \in Dashes
                                         /\ Len(after) >= 3
                                         /\ after[2] \in Space
                                         /\ LStrip(Tail(after), Space) # <<>>
                           IN  [matched |-> TRUE,
                                number  |-> MarkerNumber(line),
                                url     |-> SubSeq(rest, 1, e - 1),
                                title   |-> IF dashed THEN LStrip(Tail(after), Space)
                                            ELSE after]

\* r"\[(\d+)\]:\s*(https?://[^\s]+)\s+(.+)"
WhitespaceMatch(line) ==
    IF MarkerEnd(line) = 0 THEN NoMatch
    ELSE LET rest == AfterMarker(line)
         IN  IF ~HasScheme(rest) THEN NoMatch
             ELSE LET e     == FirstIn(rest, Space)
                      after == LStrip(SubSeq(rest, e, Len(rest)), Space)
                  IN  IF e < 3 \/ e > Len(rest) \/ after = <<>> THEN NoMatch
                      ELSE [matched |-> TRUE,
                            number  |-> MarkerNumber(line),
                            url     |-> SubSeq(rest, 1, e - 1),
                            title   |-> after]

\* characters that end r"https?://[^\s–\-\)\]\}]+"
UrlStop == {" ", "ndash", "-", ")", "]", "}"}

TrailingPunct == {".", ",", ";", ":", "!", "?", ")"}

\* re.search(r"https?://[^\s–\-\)\]\}]+", content): the leftmost scheme that
\* is followed by a character of the class; 0 when there is none
EmbeddedUrlStart(content) ==
    LET ok(i) == /\ content[i] \in Schemes
                 /\ i < Len(content)
                 /\ content[i + 1] \notin UrlStop
    IN  IF \E i \in 1..Len(content) : ok(i)
        THEN CHOOSE i \in 1..Len(content) : ok(i) /\ \A j \in 1..(i - 1) : ~ok(j)
        ELSE 0

EmbeddedUrl(content) ==
    LET i    == EmbeddedUrlStart(content)
        tail == SubSeq(content, i + 1, Len(content))
        run  == SubSeq(tail, 1, FirstIn(tail, UrlStop) - 1)
    IN  RStrip(<<content[i]>> \o run, TrailingPunct)

\* re.sub(r"https?://[^\s]+\s*[–\-]?\s*", "", content)
RECURSIVE RemoveUrls(_)
RemoveUrls(s) ==
    LET ok(i) == s[i] \in Schemes /\ i < Len(s) /\ s[i + 1] \notin Space
    IN  IF ~\E i \in 1..Len(s) : ok(i) THEN s
        ELSE LET i  == CHOOSE i \in 1..Len(s) : ok(i) /\ \A j \in 1..(i - 1) : ~ok(j)
                 t0 == SubSeq(s, i + 1, Len(s))
                 t1 == LStrip(SubSeq(t0, FirstIn(t0, Space), Len(t0)), Space)
                 t2 == IF t1 # <<>> /\ t1[1] \in Dashes THEN Tail(t1) ELSE t1
             IN  SubSeq(s, 1, i - 1) \o RemoveUrls(LStrip(t2, Space))

\* r"\[(\d+)\]:\s*(.+)" and the search for a URL inside the content
FallbackMatch(line) ==
    IF MarkerEnd(line) = 0 THEN NoMatch
    ELSE LET content == Strip(AfterMarker(line), Space)
         IN  IF content = <<>> \/ EmbeddedUrlStart(content) = 0 THEN NoMatch
             ELSE LET url   == EmbeddedUrl(content)
                      title == Strip(RemoveUrls(content), Space)
                  IN  IF StartsWith(url, <<"/">>) THEN NoMatch
                      ELSE [matched |-> TRUE,
                            number  |-> MarkerNumber(line),
                            url     |-> url,
                            title   |-> IF title = <<>> THEN url ELSE title]

\* Citation(number=..., url=..., title=...): the record, or an exception
CitationAccepts(number, url, title) == number >= 1 /\ url # <<>>

\* one iteration of the loop over the lines: the citation appended, if any
ParseLine(raw) ==
    LET line == Strip(raw, Space)
        m1   == PrimaryMatch(line)
        m2   == IF m1.matched THEN m1 ELSE WhitespaceMatch(line)
        m    == IF m2.matched THEN m2 ELSE FallbackMatch(line)
    IN  IF line = <<>> \/ ~m.matched \/ ~CitationAccepts(m.number, m.url, m.title)
        THEN <<>>
        ELSE << [number |-> m.number, url |-> m.url, title |-> m.title] >>

\* a loop that ends at the first line that yields no citation
RECURSIVE ParseLoopEndsAtBadLine(_, _)
ParseLoopEndsAtBadLine(lines, k) ==
    IF k > Len(lines) \/ ParseLine(lines[k]) = <<>> THEN <<>>
    ELSE ParseLine(lines[k]) \o ParseLoopEndsAtBadLine(lines, k + 1)

\* for line in lines: every line is tried, whatever the lines before it gave
RECURSIVE ParseLoop(_, _)
ParseLoop(lines, k) ==
    IF k > Len(lines) THEN <<>>
    ELSE ParseLine(lines[k]) \o ParseLoop(lines, k + 1)

\* the citations with the numbers written in the text
RenumberKeepsSource(cs) == cs

\* for i, citation in enumerate(citation_list.citations, 1): citation.number = i
Renumber(cs) == [i \in 1..Len(cs) |-> [cs[i] EXCEPT !.number = i]]

ParseSources(lines) == Renumber(ParseLoop(lines, 1))

\* ------------------------------------------------------------------------
\* URL status resolver (CitationURLValidator._check_url_status)
\* ------------------------------------------------------------------------

CACHE_TTL == 180

FAILED_URL_TTL == 60

ErrorPatterns ==
    { <<"/","n","o","t","f","o","u","n","d">>, <<"/","n","o","t","-","f","o","u","n","d">>, <<"/","4","0","4">>, <<"/","e","r","r","o","r">>, <<"n","o","t","f","o","u","n","d",".","a","s","p","x">>,
      <<"/","n","o","t","f","o","u","n","d",".","a","s","p","x">>, <<"/","p","a","g","e","-","n","o","t","-","f","o","u","n","d">>, <<"/","4","0","4","-","e","r","r","o","r">> }

IsErrorPageUrl(url) == \E p \in ErrorPatterns : Contains(Lower(url), p)

RedirectStatuses == {301, 302, 303, 307, 308}

\* A response of the HTTP client: kind "resp" with the status and the URL
\* the client ended on (it follows redirects itself), kind "timeout" for
\* asyncio.TimeoutError, kind "error" for every other exception.
Resp(status, url) == [kind |-> "resp", status |-> status, url |-> url]

TimeoutResp == [kind |-> "timeout", status |-> 0, url |-> <<>>]

ErrorResp == [kind |-> "error", status |-> 0, url |-> <<>>]

\* one TTL for every entry, whatever its outcome
CacheFreshOneTtl(cache, t, url) ==
    /\ url \in DOMAIN cache
    /\ t - cache[url].ts < CACHE_TTL

\* lines 200-208: the entry is served if its age is below the TTL of its class
CacheFresh(cache, t, url) ==
    /\ url \in DOMAIN cache
    /\ t - cache[url].ts < (IF cache[url].valid THEN CACHE_TTL ELSE FAILED_URL_TTL)

CachePut(cache, url, valid, final, t) ==
    [x \in DOMAIN cache \cup {url} |->
        IF x = url THEN [valid |-> valid, final |-> final, ts |-> t] ELSE cache[x]]

\* lines 210-266: the call after the cache was found to hold no fresh entry.
\* t is time.time() as read on entry, cache the cache when the answers arrive.
ProbeOutcome(cache, t, url, head, get) ==
    IF head.kind # "resp"
    THEN [valid |-> FALSE, final |-> url, cache |-> cache, requests |-> <<"HEAD">>]
    ELSE IF head.status = 200
    THEN LET ok == ~IsErrorPageUrl(head.url)
         IN  [valid |-> ok, final |-> head.url,
              cache |-> CachePut(cache, url, ok, head.url, t), requests |-> <<"HEAD">>]
    ELSE IF head.status = 404
    THEN [valid |-> FALSE, final |-> head.url,
          cache |-> CachePut(cache, url, FALSE, head.url, t), requests |-> <<"HEAD">>]
    ELSE IF head.status \in RedirectStatuses
    THEN IF get.kind = "resp"
         THEN LET ok == get.status = 200 /\ ~IsErrorPageUrl(get.url)
              IN  [valid |-> ok, final |-> get.url,
                   cache |-> CachePut(cache, url, ok, get.url, t),
                   requests |-> <<"HEAD", "GET">>]
         ELSE IF get.kind = "timeout"
         THEN [valid |-> FALSE, final |-> head.url,
               cache |-> CachePut(cache, url, FALSE, head.url, t),
               requests |-> <<"HEAD", "GET">>]
         ELSE [valid |-> FALSE, final |-> url, cache |-> cache,
               requests |-> <<"HEAD", "GET">>]
    ELSE [valid |-> FALSE, final |-> head.url,
          cache |-> CachePut(cache, url, FALSE, head.url, t), requests |-> <<"HEAD">>]

\* One call.  t is time.time() read on entry; head is the answer to the HEAD
\* request and get the answer to the GET request that follows a 3xx status.
\* The result: is_valid, final_url, the cache afterwards, and the requests
\* that were issued.
CheckUrlStatus(cache, t, url, head, get) ==
    IF CacheFresh(cache, t, url)
    THEN [valid |-> cache[url].valid, final |-> cache[url].final,
          cache |-> cache, requests |-> <<>>]
    ELSE ProbeOutcome(cache, t, url, head, get)

\* ------------------------------------------------------------------------
\* Specific-page check, URL normalisation, search query
\* ------------------------------------------------------------------------

TrivialPaths == { <<>>, <<"i","n","d","e","x",".","h","t","m","l">>, <<"i","n","d","e","x">>, <<"h","o","m","e">>, <<"h","o","m","e","p","a","g","e">>, <<"d","e","f","a","u","l","t">> }

IsSpecificPageUrl(url) ==
    IF url = <<>> THEN FALSE
    ELSE LET url_clean == Strip(SelectSeq(url, LAMBDA c : c \notin Schemes), {"/"})
             k         == FirstIn(url_clean, {"/"})
         IN  IF k > Len(url_clean) THEN FALSE
             ELSE Lower(SubSeq(url_clean, k + 1, Len(url_clean))) \notin TrivialPaths

\* s.split(sep) for a one-character separator
RECURSIVE Split(_, _)
Split(s, sep) ==
    LET k == FirstIn(s, {sep})
    IN  IF k > Len(s) THEN <<s>>
        ELSE <<SubSeq(s, 1, k - 1)>> \o Split(SubSeq(s, k + 1, Len(s)), sep)

\* sep.join(parts)
RECURSIVE Join(_, _)
Join(parts, sep) ==
    IF parts = <<>> THEN <<>>
    ELSE IF Len(parts) = 1 THEN parts[1]
    ELSE parts[1] \o <<sep>> \o Join(Tail(parts), sep)

TrackingPrefixes == { <<"u","t","m","_">>, <<"g","c","l","i","d">>, <<"f","b","c","l","i","d">> }

IsTrackingParam(param) == \E p \in TrackingPrefixes : StartsWith(Lower(param), p)

NormalizeUrl(raw) ==
    LET u0    == Strip(raw, Space)
        url   == IF HasScheme(u0) THEN u0 ELSE <<"https://">> \o u0
        rest  == Tail(url)
        h     == FirstIn(rest, {"#"})
        frag  == SubSeq(rest, h + 1, Len(rest))
        nofr  == SubSeq(rest, 1, h - 1)
        q     == FirstIn(nofr, {"?"})
        query == SubSeq(nofr, q + 1, Len(nofr))
        head  == SubSeq(nofr, 1, q - 1)
        kept  == SelectSeq(Split(query, "&"),
                           LAMBDA p : p # <<>> /\ ~IsTrackingParam(p))
    IN  <<url[1]>> \o head
          \o (IF kept # <<>> THEN <<"?">> \o Join(kept, "&") ELSE <<>>)
          \o (IF frag # <<>> THEN <<"#">> \o frag ELSE <<>>)

QUERY_MAX == 100

\* re.sub(r"\[\d+\]", "", query)
RECURSIVE RemoveMarkers(_)
RemoveMarkers(s) ==
    LET at(i) == /\ s[i] = "["
                 /\ LET k == FirstNotIn(SubSeq(s, i + 1, Len(s)), {Digits[d] : d \in 1..10})
                    IN  k >= 2 /\ i + k <= Len(s) /\ s[i + k] = "]"
    IN  IF ~\E i \in 1..Len(s) : at(i) THEN s
        ELSE LET i == CHOOSE i \in 1..Len(s) : at(i) /\ \A j \in 1..(i - 1) : ~at(j)
                 k == FirstNotIn(SubSeq(s, i + 1, Len(s)), {Digits[d] : d \in 1..10})
             IN  SubSeq(s, 1, i - 1) \o RemoveMarkers(SubSeq(s, i + k + 1, Len(s)))

BuildSearchQuery(title) ==
    LET query == RemoveMarkers(Strip(title, Space))
    IN  IF Len(query) > QUERY_MAX THEN SubSeq(query, 1, QUERY_MAX) \o <<".",".",".">> ELSE query

\* ------------------------------------------------------------------------
\* Assistant (Gemini) responses
\* ------------------------------------------------------------------------

\* What generate_content gives back.  kind "text": a response text, read
\* through the regular expressions of the source as
\*   json      "ok"   a {... "url" ... "verified" ...} object json.loads accepts,
\*             "bad"  such an object that json.loads rejects,
\*             "none" no such object;
\*   url, verified, hasTitle, title   the fields of the object (json = "ok");
\*   textUrls  the URL tokens of the text outside the object, in text order;
\*   nearTitle the title-like text _extract_title_from_response finds
\*             (<<>>: none).
\* kind "timeout": asyncio.TimeoutError; kind "error": any other exception.
NoText ==
    [kind |-> "text", json |-> "none", url |-> <<>>, verified |-> FALSE,
     hasTitle |-> FALSE, title |-> <<>>, textUrls |-> <<>>, nearTitle |-> <<>>]

Structured(url, title, verified) ==
    [NoText EXCEPT !.json = "ok", !.url = url, !.verified = verified,
                   !.hasTitle = TRUE, !.title = title]

\* {"url": "", "verified": false}
NotFoundSentinel == [NoText EXCEPT !.json = "ok"]

FreeText(urls, nearTitle) == [NoText EXCEPT !.textUrls = urls, !.nearTitle = nearTitle]

BadJson(urls) == [NoText EXCEPT !.json = "bad", !.textUrls = urls]

AssistantTimeout == [NoText EXCEPT !.kind = "timeout"]

\* the assistant never answers; asyncio.wait_for turns this into
\* AssistantTimeout where the call is wrapped in it
NeverAnswers == [NoText EXCEPT !.kind = "never"]

AssistantError == [NoText EXCEPT !.kind = "error"]

\* _extract_urls_from_response: the regex matches of the whole text (the
\* object's own URL is one of them when it carries a scheme), trailing
\* punctuation stripped, empty matches dropped; then the object's url is put
\* in front
ExtractUrlsFromResponse(resp) ==
    LET inJson  == IF resp.json = "ok" /\ HasScheme(resp.url) /\ Len(resp.url) > 1
                   THEN <<resp.url>> ELSE <<>>
        stripped == [i \in 1..Len(inJson \o resp.textUrls) |->
                        RStrip((inJson \o resp.textUrls)[i], TrailingPunct)]
        matches == SelectSeq(stripped, LAMBDA u : u # <<>>)
    IN  IF resp.json = "ok" THEN <<resp.url>> \o matches ELSE matches

\* _extract_title_from_response(...) or title
MetaTitle(resp, title) == IF resp.nearTitle # <<>> THEN resp.nearTitle ELSE title

\* ------------------------------------------------------------------------
\* Authority fallback table (_try_authority_fallback)
\* ------------------------------------------------------------------------

AuthorityPatterns == <<
    [keywords |-> << <<"b","u","s","i","n","e","s","s">>, <<"f","i","n","a","n","c","e">>, <<"e","c","o","n","o","m","y">>, <<"r","e","v","e","n","u","e">>, <<"p","r","o","f","i","t">>,
                     <<"m","a","r","k","e","t">>, <<"e","n","t","e","r","p","r","i","s","e">> >>,
     urls |-> << [url |-> <<"https://","w","w","w",".","i","n","v","e","s","t","o","p","e","d","i","a",".","c","o","m","/">>, name |-> <<"I","n","v","e","s","t","o","p","e","d","i","a">>],
                 [url |-> <<"https://","h","b","r",".","o","r","g","/">>, name |-> <<"H","a","r","v","a","r","d"," ","B","u","s","i","n","e","s","s"," ","R","e","v","i","e","w">>],
                 [url |-> <<"https://","w","w","w",".","c","e","n","s","u","s",".","g","o","v","/">>, name |-> <<"U",".","S","."," ","C","e","n","s","u","s"," ","B","u","r","e","a","u">>],
                 [url |-> <<"https://","w","w","w",".","b","r","o","o","k","i","n","g","s",".","e","d","u","/">>, name |-> <<"B","r","o","o","k","i","n","g","s"," ","I","n","s","t","i","t","u","t","i","o","n">>] >>],
    [keywords |-> << <<"a","i">>, <<"a","r","t","i","f","i","c","i","a","l"," ","i","n","t","e","l","l","i","g","e","n","c","e">>, <<"m","a","c","h","i","n","e"," ","l","e","a","r","n","i","n","g">>,
                     <<"t","e","c","h","n","o","l","o","g","y">>, <<"s","o","f","t","w","a","r","e">>, <<"a","u","t","o","m","a","t","i","o","n">> >>,
     urls |-> << [url |-> <<"https://","w","w","w",".","n","i","s","t",".","g","o","v","/">>, name |-> <<"N","I","S","T">>],
                 [url |-> <<"https://","w","w","w",".","n","a","t","u","r","e",".","c","o","m","/">>, name |-> <<"N","a","t","u","r","e">>],
                 [url |-> <<"https://","t","e","c","h","c","r","u","n","c","h",".","c","o","m","/">>, name |-> <<"T","e","c","h","C","r","u","n","c","h">>],
                 [url |-> <<"https://","w","w","w",".","i","e","e","e",".","o","r","g","/">>, name |-> <<"I","E","E","E">>] >>],
    [keywords |-> << <<"h","e","a","l","t","h">>, <<"m","e","d","i","c","a","l">>, <<"h","e","a","l","t","h","c","a","r","e">>, <<"p","a","t","i","e","n","t">>, <<"t","r","e","a","t","m","e","n","t">>,
                     <<"c","l","i","n","i","c","a","l">> >>,
     urls |-> << [url |-> <<"https://","w","w","w",".","w","h","o",".","i","n","t","/">>, name |-> <<"W","o","r","l","d"," ","H","e","a","l","t","h"," ","O","r","g","a","n","i","z","a","t","i","o","n">>],
                 [url |-> <<"https://","w","w","w",".","n","e","j","m",".","o","r","g","/">>, name |-> <<"N","e","w"," ","E","n","g","l","a","n","d"," ","J","o","u","r","n","a","l"," ","o","f"," ","M","e","d","i","c","i","n","e">>],
                 [url |-> <<"https://","w","w","w",".","n","i","h",".","g","o","v","/">>, name |-> <<"N","a","t","i","o","n","a","l"," ","I","n","s","t","i","t","u","t","e","s"," ","o","f"," ","H","e","a","l","t","h">>],
                 [url |-> <<"https://","j","a","m","a","n","e","t","w","o","r","k",".","c","o","m","/">>, name |-> <<"J","A","M","A"," ","N","e","t","w","o","r","k">>] >>],
    [keywords |-> << <<"m","a","n","u","f","a","c","t","u","r","i","n","g">>, <<"i","n","d","u","s","t","r","y">>, <<"p","r","o","d","u","c","t","i","o","n">>, <<"f","a","c","t","o","r","y">>,
                     <<"i","n","d","u","s","t","r","i","a","l">> >>,
     urls |-> << [url |-> <<"https://","w","w","w",".","m","a","n","u","f","a","c","t","u","r","i","n","g",".","n","e","t","/">>, name |-> <<"M","a","n","u","f","a","c","t","u","r","i","n","g",".","n","e","t">>],
                 [url |-> <<"https://","w","w","w",".","i","n","d","u","s","t","r","y","w","e","e","k",".","c","o","m","/">>, name |-> <<"I","n","d","u","s","t","r","y","W","e","e","k">>],
                 [url |-> <<"https://","w","w","w",".","n","i","s","t",".","g","o","v","/">>, name |-> <<"N","I","S","T">>] >>],
    [keywords |-> << <<"m","a","r","k","e","t","i","n","g">>, <<"a","d","v","e","r","t","i","s","i","n","g">>, <<"d","i","g","i","t","a","l">>, <<"c","o","n","t","e","n","t">>, <<"e","m","a","i","l">>,
                     <<"a","u","t","o","m","a","t","i","o","n">>, <<"c","a","m","p","a","i","g","n">> >>,
     urls |-> << [url |-> <<"https://","h","b","r",".","o","r","g","/">>, name |-> <<"H","a","r","v","a","r","d"," ","B","u","s","i","n","e","s","s"," ","R","e","v","i","e","w">>],
                 [url |-> <<"https://","w","w","w",".","s","t","a","t","i","s","t","a",".","c","o","m","/">>, name |-> <<"S","t","a","t","i","s","t","a">>],
                 [url |-> <<"https://","t","e","c","h","c","r","u","n","c","h",".","c","o","m","/">>, name |-> <<"T","e","c","h","C","r","u","n","c","h">>],
                 [url |-> <<"https://","w","w","w",".","p","e","w","r","e","s","e","a","r","c","h",".","o","r","g","/">>, name |-> <<"P","e","w"," ","R","e","s","e","a","r","c","h"," ","C","e","n","t","e","r">>] >>],
    [keywords |-> << <<"r","e","s","e","a","r","c","h">>, <<"s","t","u","d","y">>, <<"r","e","p","o","r","t">>, <<"d","a","t","a">>, <<"s","t","a","t","i","s","t","i","c","s">> >>,
     urls |-> << [url |-> <<"https://","w","w","w",".","p","e","w","r","e","s","e","a","r","c","h",".","o","r","g","/">>, name |-> <<"P","e","w"," ","R","e","s","e","a","r","c","h"," ","C","e","n","t","e","r">>],
                 [url |-> <<"https://","w","w","w",".","c","e","n","s","u","s",".","g","o","v","/">>, name |-> <<"U",".","S","."," ","C","e","n","s","u","s"," ","B","u","r","e","a","u">>],
                 [url |-> <<"https://","w","w","w",".","s","t","a","t","i","s","t","a",".","c","o","m","/">>, name |-> <<"S","t","a","t","i","s","t","a">>],
                 [url |-> <<"https://","w","w","w",".","b","r","o","o","k","i","n","g","s",".","e","d","u","/">>, name |-> <<"B","r","o","o","k","i","n","g","s">>] >>]
>>

PatternMatches(pattern, query_lower) ==
    \E k \in 1..Len(pattern.keywords) : Contains(query_lower, pattern.keywords[k])

\* The (base_url, source_name) pairs the two nested loops reach when no
\* probe succeeds: of every pattern with a keyword in the query, in declared
\* order, the URLs the domain filter lets through.
RECURSIVE AuthorityCandidates(_, _, _, _)
AuthorityCandidates(query_lower, company_url, competitors, p) ==
    IF p > Len(AuthorityPatterns) THEN <<>>
    ELSE (IF PatternMatches(AuthorityPatterns[p], query_lower)
          THEN SelectSeq(AuthorityPatterns[p].urls,
                         LAMBDA e : ~ShouldFilterUrl(e.url, company_url, competitors))
          ELSE <<>>)
         \o AuthorityCandidates(query_lower, company_url, competitors, p + 1)

AUTH_KEY_LEN == 100

AUTH_TITLE_LEN == 60

Prefix(s, n) == SubSeq(s, 1, IF Len(s) < n THEN Len(s) ELSE n)

AuthorityCacheKey(search_query) == Prefix(search_query, AUTH_KEY_LEN)

FallbackTitle(search_query, source_name) ==
    Prefix(search_query, AUTH_TITLE_LEN) \o <<" ","-"," ">> \o source_name

AuthFresh(cache, t, key) == key \in DOMAIN cache /\ t - cache[key].ts < CACHE_TTL

\* _AUTHORITY_CACHE[cache_key] = (result, current_time).  The field "at" is
\* history: the time of the assignment, which the program does not keep.
AuthPut(cache, key, found, url, title, t, at) ==
    [x \in DOMAIN cache \cup {key} |->
        IF x = key THEN [found |-> found, url |-> url, title |-> title, ts |-> t, at |-> at]
        ELSE cache[x]]

\* ------------------------------------------------------------------------
\* The environment of one validation batch
\* ------------------------------------------------------------------------

\* company_url and competitors of the batch (context.company_data)
COMPANY_URL == <<"https://","a","c","m","e",".","c","o","m">>

\* competitor lists of a batch: the rival alone, or the rival and three of
\* the authority domains of the technology pattern
RIVAL_ONLY == << <<"r","i","v","a","l",".","c","o","m">> >>

RIVAL_AND_AUTHORITIES == << <<"r","i","v","a","l",".","c","o","m">>, <<"n","a","t","u","r","e",".","c","o","m">>, <<"t","e","c","h","c","r","u","n","c","h",".","c","o","m">>, <<"https://","w","w","w",".","i","e","e","e",".","o","r","g">> >>

PAGE_URL == <<"https://","n","i","s","t",".","g","o","v","/","a","i","-","g","u","i","d","e","l","i","n","e","s">>

MOVED_URL == <<"https://","w","w","w",".","n","i","s","t",".","g","o","v","/","a","i","-","g","u","i","d","e","l","i","n","e","s">>

HOME_URL == <<"https://","e","x","a","m","p","l","e",".","c","o","m","/">>

DEEP_URL == <<"https://","e","x","a","m","p","l","e",".","c","o","m","/","d","e","e","p">>

INDEX_URL == <<"https://","e","x","a","m","p","l","e",".","c","o","m","/","i","n","d","e","x">>

OTHER_URL == <<"https://","o","t","h","e","r",".","o","r","g","/","p","a","g","e">>

OWN_URL == <<"https://","b","l","o","g",".","a","c","m","e",".","c","o","m","/","x">>

RIVAL_URL == <<"https://","r","i","v","a","l",".","c","o","m","/","p">>

NOTFOUND_URL == <<"https://","n","i","s","t",".","g","o","v","/","4","0","4">>

WHO_URL == <<"https://","w","w","w",".","w","h","o",".","i","n","t","/","r","e","p","o","r","t">>

AI_TITLE == <<"A","I"," ","g","u","i","d","e">>

\* a title with keywords of two authority patterns: "industry" and "data"
TWO_TOPICS_TITLE == <<"I","n","d","u","s","t","r","y"," ","d","a","t","a">>

PLAIN_TITLE == <<"N","o","t","e","s">>

WHO_TITLE == <<"W","H","O"," ","r","e","p","o","r","t">>

NEAR_TITLE == <<"H","e","a","l","t","h"," ","f","a","c","t","s">>

\* the citations a batch is made of
InputCitations(w) ==
    IF w = "unit"
    THEN { [url |-> PAGE_URL, title |-> AI_TITLE],
           [url |-> HOME_URL, title |-> PLAIN_TITLE],
           [url |-> OWN_URL,  title |-> AI_TITLE],
           [url |-> PAGE_URL, title |-> TWO_TOPICS_TITLE] }
    ELSE { [url |-> HOME_URL, title |-> AI_TITLE],
           [url |-> OWN_URL,  title |-> PLAIN_TITLE] }

IsAuthorityUrl(url) ==
    \E p \in 1..Len(AuthorityPatterns) :
        \E k \in 1..Len(AuthorityPatterns[p].urls) : AuthorityPatterns[p].urls[k].url = url

VARIABLES
    world,        \* "batch", "unit", "repeat", "status" or "stage": the setting of the calls
    competitors,  \* the competitors argument of the batch
    now,          \* time.time()
    input,        \* the citations as passed to validate_all_citations
    citations,    \* the Citation objects (the units assign to them in place)
    unit,         \* unit[i]: the coroutine validate_single_citation(citations[i])
    validated,    \* the slots of asyncio.gather: 0 pending, i the object returned
    completed,    \* the units in the order they finished
    result,       \* the list validate_all_citations returned
    batch,        \* "running", "returned" or "raised"
    statusCache,  \* _URL_STATUS_CACHE
    authCache     \* _AUTHORITY_CACHE

orchVars ==
    <<world, competitors, now, input, citations, unit, validated, completed, result, batch,
      statusCache, authCache>>

VARIABLES
    fUrl, fCompany, fCompetitors,   \* the arguments of _should_filter_url
    fResult,                        \* its return value
    fPc,                            \* "idle", "called" or "returned"
    pLines,                         \* sources_text, split into its lines
    pCitations,                     \* the citations of the CitationList returned
    pPc,                            \* "idle", "called" or "returned"
    calls,                          \* calls[c]: one direct call of _check_url_status
    written,                        \* history: the timestamps stored in the status cache
    retry,                          \* one call of GeminiClient._call_api_with_retry
    stage                           \* one call of CitationsStage.execute

filterVars == <<fUrl, fCompany, fCompetitors, fResult, fPc>>

parseVars == <<pLines, pCitations, pPc>>

callVars == <<calls, written, retry>>

stageVars == <<stage>>

vars == <<orchVars, filterVars, parseVars, callVars, stageVars>>

OrchIdle ==
    /\ world = "none" /\ competitors = <<>> /\ now = 0 /\ input = <<>> /\ citations = <<>> /\ unit = <<>>
    /\ validated = <<>> /\ completed = <<>> /\ result = <<>> /\ batch = "idle"
    /\ statusCache = <<>> /\ authCache = <<>>

FilterIdle ==
    /\ fUrl = <<>> /\ fCompany = <<>> /\ fCompetitors = <<>> /\ fResult = FALSE
    /\ fPc = "idle"

ParseIdle == pLines = <<>> /\ pCitations = <<>> /\ pPc = "idle"

RetryIdle ==
    retry = [pc |-> "idle", attempt |-> 0, wait_time |-> 0, calls |-> 0,
             errors |-> <<>>, slept |-> <<>>, raised |-> "none"]

CallsIdle == calls = <<>> /\ written = <<>> /\ RetryIdle

StageIdle ==
    stage = [pc |-> "idle", enable_citation_validation |-> FALSE, company_url |-> <<>>,
             original_urls |-> <<>>, citations_list |-> <<>>, notes |-> <<>>]

Filtered(url) == ShouldFilterUrl(url, COMPANY_URL, competitors)

\* what a HEAD request for url may be answered with
HeadResponses(url) ==
    IF world = "unit" /\ ~IsAuthorityUrl(url)
    THEN { Resp(200, url), Resp(200, RIVAL_URL), Resp(200, NOTFOUND_URL),
           Resp(404, url), Resp(301, url), Resp(304, url), Resp(500, url),
           TimeoutResp, ErrorResp }
         \cup (IF url = PAGE_URL THEN {Resp(200, MOVED_URL)} ELSE {})
    ELSE { Resp(200, url), Resp(404, url) }

\* what the GET request after a 3xx answer may be answered with
GetResponses(url) ==
    { Resp(200, url), Resp(200, NOTFOUND_URL), Resp(404, url), TimeoutResp, ErrorResp }

\* what the assistant may answer to the search for an alternative
AltResponses ==
    IF world = "unit"
    THEN { AssistantTimeout, AssistantError, NotFoundSentinel,
           Structured(WHO_URL, WHO_TITLE, TRUE),
           Structured(RIVAL_URL, WHO_TITLE, TRUE),
           Structured(WHO_URL, WHO_TITLE, FALSE),
           FreeText(<<RIVAL_URL, WHO_URL>>, NEAR_TITLE),
           BadJson(<<WHO_URL>>) }
    ELSE { AssistantTimeout, NotFoundSentinel, Structured(WHO_URL, WHO_TITLE, TRUE) }

\* what the assistant may answer to the search for a specific page
SpecificResponses ==
    IF world = "unit"
    THEN { AssistantError, NotFoundSentinel, NeverAnswers,
           [NoText EXCEPT !.json = "ok", !.url = DEEP_URL, !.verified = TRUE],
           [NoText EXCEPT !.json = "ok", !.url = INDEX_URL, !.verified = TRUE],
           [NoText EXCEPT !.json = "ok", !.url = OTHER_URL, !.verified = TRUE],
           [NoText EXCEPT !.json = "ok", !.url = RIVAL_URL, !.verified = TRUE],
           [NoText EXCEPT !.json = "bad"] }
    ELSE { NotFoundSentinel,
           [NoText EXCEPT !.json = "ok", !.url = DEEP_URL, !.verified = TRUE] }

\* ------------------------------------------------------------------------
\* One unit of work: validate_single_citation / validate_citation_url
\* ------------------------------------------------------------------------

\* The history of single calls is kept where one unit is followed; a batch
\* of concurrent units keeps none of it.
KeepsCallHistory == world \notin {"batch", "stage"}

\* history: the last call of _check_url_status a unit made.  hadEntry,
\* entryValid and entryAge describe the cache entry of the URL on entry.
NoProbe ==
    [url |-> <<>>, head |-> ErrorResp, get |-> ErrorResp, valid |-> FALSE,
     requests |-> <<>>, hadEntry |-> FALSE, entryValid |-> FALSE, entryAge |-> 0,
     stored |-> FALSE]

\* history: the call of _try_authority_fallback a unit made.  hadEntry and
\* entryAge describe the cache entry of the key on entry, sinceWrite the time
\* since that entry was written.
NoLookup ==
    [entered |-> FALSE, hadEntry |-> FALSE, entryAge |-> 0, sinceWrite |-> 0,
     served |-> FALSE]

NewUnit ==
    [pc |-> "start", valid |-> FALSE, final |-> <<>>,
     mode |-> "none", cand |-> <<>>, candTitle |-> <<>>, rest |-> <<>>,
     regexTitle |-> <<>>, auth |-> <<>>, authT0 |-> 0,
     \* history of the unit, read by the properties only
     outcome |-> "none", origValid |-> FALSE, resolved |-> <<>>, okUrls |-> {},
     candOk |-> {}, verifiedCand |-> <<>>, altFrom |-> "none", altCand |-> <<>>,
     altCalls |-> 0, tier2 |-> NoLookup, probed |-> <<>>, probe |-> NoProbe,
     attempts |-> 0]

\* the coroutine has returned: its locals are gone, its history stays
Ended(u, outcome) ==
    [NewUnit EXCEPT !.pc = "done", !.outcome = outcome, !.origValid = u.origValid,
                    !.resolved = u.resolved, !.okUrls = u.okUrls, !.candOk = u.candOk,
                    !.verifiedCand = u.verifiedCand, !.altFrom = u.altFrom,
                    !.altCand = u.altCand, !.altCalls = u.altCalls,
                    !.tier2 = u.tier2, !.probed = u.probed, !.probe = u.probe,
                    !.attempts = u.attempts]

N == Len(input)

\* history: the status probes that sent a request and the calls of the
\* assistant a unit has made
Attempts(u, requests) ==
    IF KeepsCallHistory /\ requests # <<>> THEN u.attempts + 1 ELSE u.attempts

\* a loop that awaits each unit before it starts the next
MayRunInTurn(i) == batch = "running" /\ \A j \in 1..(i - 1) : unit[j].pc = "done"

\* lines 1041-1042: gather schedules every coroutine as a task of its own, so
\* unit i runs whenever the call has not returned
MayRun(i) == batch = "running"

\* the return values of validate_citation_url
ReturnAccepted(url, title) == [ok |-> TRUE, url |-> url, title |-> title]

ReturnInvalidKeepsFinal(url, title, final) == [ok |-> FALSE, url |-> final, title |-> title]

\* return False, url, title   (lines 150 and 176)
ReturnInvalid(url, title, final) == [ok |-> FALSE, url |-> url, title |-> title]

\* the unit goes on to its next await
Continue(i, u) ==
    /\ unit' = [unit EXCEPT ![i] = u]
    /\ UNCHANGED <<citations, validated, completed>>

\* the result is written to the citation in the slot of the units finished
FinishInCompletionSlot(i, u, ret) ==
    /\ unit' = [unit EXCEPT ![i] = Ended(u, IF ret.ok THEN "valid" ELSE "invalid")]
    /\ citations' = [citations EXCEPT ![Len(completed) + 1].url = ret.url,
                                      ![Len(completed) + 1].title = ret.title]
    /\ validated' = [validated EXCEPT ![i] = i]
    /\ completed' = Append(completed, i)

\* validate_citation_url returned ret; citation.url and citation.title are
\* assigned and the citation is returned to gather
Finish(i, u, ret) ==
    /\ unit' = [unit EXCEPT ![i] = Ended(u, IF ret.ok THEN "valid" ELSE "invalid")]
    /\ citations' = [citations EXCEPT ![i].url = ret.url, ![i].title = ret.title]
    /\ validated' = [validated EXCEPT ![i] = i]
    /\ completed' = Append(completed, i)

\* no alternative: return False, url, title
FinishInvalid(i, u) ==
    Finish(i, u, ReturnInvalid(input[i].url, input[i].title, u.final))

\* lines 134-163: after the status check and the specific-page step
AfterSpecific(i, u) ==
    IF u.valid /\ ~Filtered(u.final)
    THEN Finish(i, u, ReturnAccepted(u.final, input[i].title))
    ELSE Continue(i, [u EXCEPT !.pc = "alt", !.altCalls = @ + 1])

\* one call of _check_url_status at the present time and cache, answered by
\* head and get: its result, with the history record of the call
ProbeWith(url, head, get) ==
    LET r    == CheckUrlStatus(statusCache, now, url, head, get)
        had  == url \in DOMAIN statusCache
        sent == r.requests # <<>>
    IN  [valid |-> r.valid, final |-> r.final, cache |-> r.cache, requests |-> r.requests,
         hist |-> IF ~KeepsCallHistory THEN NoProbe ELSE
                  [url |-> url,
                   head |-> IF sent THEN head ELSE ErrorResp,
                   get |-> IF Len(r.requests) = 2 THEN get ELSE ErrorResp,
                   valid |-> r.valid,
                   requests |-> r.requests,
                   hadEntry |-> had,
                   entryValid |-> had /\ statusCache[url].valid,
                   entryAge |-> IF had THEN now - statusCache[url].ts ELSE 0,
                   stored |-> /\ url \in DOMAIN r.cache
                              /\ r.cache[url].valid = r.valid
                              /\ r.cache[url].ts = now]]

Probe(url) ==
    UNION { { ProbeWith(url, head, get) :
                get \in IF head.kind = "resp" /\ head.status \in RedirectStatuses
                        THEN GetResponses(url) ELSE {ErrorResp} } :
            head \in HeadResponses(url) }

\* lines 117-131: the status check of the original URL
CheckOriginal(i) ==
    /\ MayRun(i)
    /\ unit[i].pc = "start"
    /\ \E r \in Probe(input[i].url) :
        LET u == [unit[i] EXCEPT !.valid = r.valid, !.final = r.final, !.probe = r.hist,
                                 !.attempts = Attempts(unit[i], r.requests),
                                 !.origValid = r.valid, !.resolved = r.final,
                                 !.okUrls = IF r.valid THEN @ \cup {r.final} ELSE @]
        IN  /\ statusCache' = r.cache
            /\ IF ~IsSpecificPageUrl(r.final)
               THEN Continue(i, [u EXCEPT !.pc = "specific"])
               ELSE AfterSpecific(i, u)
    /\ UNCHANGED <<world, competitors, now, input, result, batch, authCache>>
    /\ UNCHANGED <<filterVars, parseVars, callVars, stageVars>>

\* _find_specific_page_url: the URL found, <<>> for None
FindSpecificPageUrl(resp) ==
    IF resp.kind # "text" \/ resp.json # "ok" THEN <<>>
    ELSE IF resp.verified /\ resp.url # <<>> /\ IsSpecificPageUrl(resp.url)
    THEN resp.url
    ELSE <<>>

\* lines 125-131: the answer to the specific-page search arrives
SpecificSearch(i) ==
    /\ MayRun(i)
    /\ unit[i].pc = "specific"
    /\ \E resp \in SpecificResponses :
        LET specific_url == FindSpecificPageUrl(resp)
        IN  IF resp.kind = "never"
            \* line 621 awaits the answer without a timeout: the unit stays there
            THEN Continue(i, [unit[i] EXCEPT !.pc = "hung"])
            ELSE AfterSpecific(i, [unit[i] EXCEPT
                                      !.attempts = Attempts(unit[i], <<"SEARCH">>),
                                      !.final = IF specific_url # <<>>
                                                THEN specific_url ELSE @])
    /\ UNCHANGED <<world, competitors, now, input, result, batch, statusCache, authCache>>
    /\ UNCHANGED <<filterVars, parseVars, callVars, stageVars>>

SearchQuery(i) == BuildSearchQuery(input[i].title)

\* the loop "for candidate_url in urls" up to its next status check: empty
\* and filtered candidates are passed over
RECURSIVE SkipUnusable(_)
SkipUnusable(urls) ==
    IF urls = <<>> THEN <<>>
    ELSE IF Head(urls) = <<>> \/ Filtered(NormalizeUrl(Head(urls)))
    THEN SkipUnusable(Tail(urls))
    ELSE urls

\* lines 406-438: the regex branch, entered with the URLs still to try
RegexLoop(i, u, urls) ==
    LET left == SkipUnusable(urls)
    IN  IF left = <<>>
        THEN FinishInvalid(i, u)
        ELSE Continue(i, [u EXCEPT !.pc = "cand", !.mode = "regex",
                                   !.cand = NormalizeUrl(Head(left)),
                                   !.candTitle = u.regexTitle,
                                   !.rest = Tail(left)])

\* lines 393 and 428: "if is_valid" decides whether the candidate is returned
CandidateAcceptedUnchecked(check) == TRUE

CandidateAccepted(check) == check.valid

\* _try_authority_fallback up to its first status check
AuthorityEnter(i, u0) ==
    LET key == AuthorityCacheKey(SearchQuery(i))
        cands == AuthorityCandidates(Lower(SearchQuery(i)), COMPANY_URL, competitors, 1)
        had == key \in DOMAIN authCache
        u == IF ~KeepsCallHistory THEN u0 ELSE
             [u0 EXCEPT !.tier2 = [entered |-> TRUE, hadEntry |-> had,
                                   entryAge |-> IF had THEN now - authCache[key].ts ELSE 0,
                                   sinceWrite |-> IF had THEN now - authCache[key].at ELSE 0,
                                   served |-> AuthFresh(authCache, now, key)]]
    IN  IF AuthFresh(authCache, now, key)
        THEN /\ authCache' = authCache
             /\ IF authCache[key].found
                THEN Finish(i, [u EXCEPT !.altFrom = "authcache"],
                            ReturnAccepted(authCache[key].url, authCache[key].title))
                ELSE FinishInvalid(i, u)
        ELSE IF cands = <<>>
        THEN /\ authCache' = AuthPut(authCache, key, FALSE, <<>>, <<>>, now, now)
             /\ FinishInvalid(i, u)
        ELSE /\ authCache' = authCache
             /\ Continue(i, [u EXCEPT !.pc = "auth", !.auth = cands, !.authT0 = now])

\* lines 344-405: the assistant's answer to the search for an alternative
AltSearch(i) ==
    /\ MayRun(i)
    /\ unit[i].pc = "alt"
    /\ \E resp \in AltResponses :
        LET u    == [unit[i] EXCEPT !.regexTitle = MetaTitle(resp, input[i].title),
                                    !.attempts = Attempts(unit[i], <<"SEARCH">>)]
            urls == ExtractUrlsFromResponse(resp)
            cand == NormalizeUrl(Strip(resp.url, Space))
        IN  IF resp.kind # "text"
            THEN AuthorityEnter(i, u)
            ELSE /\ authCache' = authCache
                 /\ IF resp.json = "ok" /\ resp.verified /\ resp.url # <<>>
                    THEN IF Filtered(cand)
                         THEN RegexLoop(i, u, urls)
                         ELSE Continue(i, [u EXCEPT !.pc = "cand", !.mode = "structured",
                                                    !.cand = cand, !.verifiedCand = cand,
                                                    !.candTitle = IF resp.hasTitle
                                                                  THEN resp.title
                                                                  ELSE input[i].title,
                                                    !.rest = urls])
                    ELSE IF resp.json = "ok" /\ resp.url = <<>> /\ ~resp.verified
                    THEN FinishInvalid(i, u)
                    ELSE RegexLoop(i, u, urls)
    /\ UNCHANGED <<world, competitors, now, input, result, batch, statusCache>>
    /\ UNCHANGED <<filterVars, parseVars, callVars, stageVars>>

\* lines 391-397 and 426-434: the status check of a candidate
CandidateCheck(i) ==
    /\ MayRun(i)
    /\ unit[i].pc = "cand"
    /\ \E r \in Probe(unit[i].cand) :
        LET u == [unit[i] EXCEPT
                    !.probe = r.hist,
                    !.attempts = Attempts(unit[i], r.requests),
                    !.okUrls = IF r.valid THEN @ \cup {r.final} ELSE @,
                    !.candOk = IF r.valid THEN @ \cup {unit[i].cand} ELSE @]
        IN  /\ statusCache' = r.cache
            /\ IF CandidateAccepted(r)
               THEN Finish(i, [u EXCEPT !.altFrom = u.mode, !.altCand = u.cand],
                           ReturnAccepted(r.final, u.candTitle))
               ELSE RegexLoop(i, u, u.rest)
    /\ UNCHANGED <<world, competitors, now, input, result, batch, authCache>>
    /\ UNCHANGED <<filterVars, parseVars, callVars, stageVars>>

\* lines 799-821: the status check of an authority URL
AuthorityProbe(i) ==
    /\ MayRun(i)
    /\ unit[i].pc = "auth"
    /\ \E r \in Probe(Head(unit[i].auth).url) :
        LET u     == [unit[i] EXCEPT !.okUrls = IF r.valid THEN @ \cup {r.final} ELSE @,
                                     !.probe = r.hist,
                                     !.attempts = Attempts(unit[i], r.requests),
                                     !.probed = IF KeepsCallHistory
                                                THEN Append(@, Head(unit[i].auth).url)
                                                ELSE @]
            key   == AuthorityCacheKey(SearchQuery(i))
            title == FallbackTitle(SearchQuery(i), Head(u.auth).name)
        IN  /\ statusCache' = r.cache
            /\ IF r.valid
               THEN /\ authCache' = AuthPut(authCache, key, TRUE, r.final, title, u.authT0, now)
                    /\ Finish(i, [u EXCEPT !.altFrom = "authority"],
                              ReturnAccepted(r.final, title))
               ELSE IF Len(u.auth) = 1
               THEN /\ authCache' = AuthPut(authCache, key, FALSE, <<>>, <<>>, u.authT0, now)
                    /\ FinishInvalid(i, u)
               ELSE /\ authCache' = authCache
                    /\ Continue(i, [u EXCEPT !.auth = Tail(@)])
    /\ UNCHANGED <<world, competitors, now, input, result, batch>>
    /\ UNCHANGED <<filterVars, parseVars, callVars, stageVars>>

\* an exception leaves the unit and nothing catches it: gather hands it on
ExceptionEscapes(i) ==
    /\ batch' = "raised"
    /\ UNCHANGED <<unit, citations, validated, completed>>

\* lines 1035-1038: except Exception: return citation
ExceptionCaught(i) ==
    /\ unit' = [unit EXCEPT ![i] = Ended(@, "exception")]
    /\ validated' = [validated EXCEPT ![i] = i]
    /\ completed' = Append(completed, i)
    /\ UNCHANGED <<citations, batch>>

\* validate_citation_url raises inside unit i
Raise(i) ==
    /\ MayRun(i)
    /\ unit[i].pc \notin {"done", "hung"}
    /\ ExceptionCaught(i)
    /\ UNCHANGED <<world, competitors, now, input, result, statusCache, authCache>>
    /\ UNCHANGED <<filterVars, parseVars, callVars, stageVars>>

\* what gather hands back for a unit that ended with an exception
ExceptionObject == -1

\* lines 1045-1052 with the slots in the order the units finished
GatherResultByCompletion(slots, done) == done

\* lines 1042-1052: the slots of gather are in the order of the tasks
GatherResult(slots, done) ==
    [i \in 1..Len(slots) |-> IF slots[i] = ExceptionObject THEN i ELSE slots[i]]

\* lines 1014-1015 and 1042-1055: every unit is done, the list is returned
Aggregate ==
    /\ batch = "running"
    /\ \A i \in 1..N : unit[i].pc = "done"
    /\ result' = GatherResult(validated, completed)
    /\ batch' = "returned"
    /\ UNCHANGED <<world, competitors, now, input, citations, unit, validated, completed,
                   statusCache, authCache>>
    /\ UNCHANGED <<filterVars, parseVars, callVars, stageVars>>

\* ------------------------------------------------------------------------
\* The specifications
\* ------------------------------------------------------------------------

\* ---- the validation batch ------------------------------------------------

MaxCitations == 2

START_TIME == 1000

\* the max_attempts the validator was constructed with
max_attempts == 3

\* the lists of n citations, numbered 1..n as the parser leaves them
InputLists(cs, n) ==
    { [i \in 1..n |-> [number |-> i, url |-> f[i].url, title |-> f[i].title]] :
        f \in [1..n -> cs] }

InitBatch(w, lists, comps) ==
    /\ world = w
    /\ competitors = comps
    /\ now = START_TIME
    /\ input \in lists
    /\ citations = input
    /\ unit = [i \in 1..Len(input) |-> NewUnit]
    /\ validated = [i \in 1..Len(input) |-> 0]
    /\ completed = <<>>
    /\ result = <<>>
    /\ batch = "running"

Init ==
    /\ InitBatch("batch",
                 UNION { InputLists(InputCitations("batch"), n) : n \in 0..MaxCitations },
                 RIVAL_AND_AUTHORITIES)
    /\ statusCache = <<>>
    /\ authCache = <<>>
    /\ FilterIdle
    /\ ParseIdle
    /\ CallsIdle
    /\ StageIdle

Next ==
    \/ \E i \in 1..N : CheckOriginal(i)
    \/ \E i \in 1..N : SpecificSearch(i)
    \/ \E i \in 1..N : AltSearch(i)
    \/ \E i \in 1..N : CandidateCheck(i)
    \/ \E i \in 1..N : AuthorityProbe(i)
    \/ \E i \in 1..N : Raise(i)
    \/ Aggregate

Spec == Init /\ [][Next]_vars

\* ---- one citation, with everything the network and the assistant may do,
\* ---- and with what earlier batches may have left in the two caches

EarlierStatusEntries(url) ==
    { [valid |-> TRUE,  final |-> url,       ts |-> START_TIME - 10],
      [valid |-> TRUE,  final |-> RIVAL_URL, ts |-> START_TIME - 100],
      [valid |-> TRUE,  final |-> url,       ts |-> START_TIME - 200],
      [valid |-> FALSE, final |-> url,       ts |-> START_TIME - 10],
      [valid |-> FALSE, final |-> url,       ts |-> START_TIME - 100] }

EarlierStatusCaches(url) ==
    { <<>> } \cup { [x \in {url} |-> e] : e \in EarlierStatusEntries(url) }

EarlierAuthCaches(title) ==
    LET key == AuthorityCacheKey(BuildSearchQuery(title))
    IN  { <<>>,
          [x \in {key} |-> [found |-> TRUE, url |-> <<"https://","w","w","w",".","n","i","s","t",".","g","o","v","/">>,
                            title |-> FallbackTitle(BuildSearchQuery(title), <<"N","I","S","T">>),
                            ts |-> START_TIME - 10, at |-> START_TIME - 10]],
          [x \in {key} |-> [found |-> FALSE, url |-> <<>>, title |-> <<>>,
                            ts |-> START_TIME - 10, at |-> START_TIME - 10]],
          [x \in {key} |-> [found |-> FALSE, url |-> <<>>, title |-> <<>>,
                            ts |-> START_TIME - 200, at |-> START_TIME - 200]] }

InitUnit ==
    /\ InitBatch("unit", InputLists(InputCitations("unit"), 1), RIVAL_ONLY)
    /\ statusCache \in EarlierStatusCaches(input[1].url)
    /\ authCache \in EarlierAuthCaches(input[1].title)
    /\ FilterIdle
    /\ ParseIdle
    /\ CallsIdle
    /\ StageIdle

SpecUnit == InitUnit /\ [][Next]_vars

\* ---- one citation validated again and again in one process: the two caches
\* ---- are module globals and outlive the call, and time passes

\* the seconds that pass in one step of the clock
TICK == 60

MaxTicks == 3

\* time.time() advances, between two calls or while a unit is suspended at
\* an await
Tick ==
    /\ world \in {"repeat", "status"}
    /\ now < START_TIME + MaxTicks * TICK
    /\ now' = now + TICK
    /\ UNCHANGED <<world, competitors, input, citations, unit, validated, completed, result,
                   batch, statusCache, authCache>>
    /\ UNCHANGED <<filterVars, parseVars, callVars, stageVars>>

\* the next call of validate_all_citations with the same citations
Again ==
    /\ world = "repeat"
    /\ batch = "returned"
    /\ citations' = input
    /\ unit' = [i \in 1..N |-> NewUnit]
    /\ validated' = [i \in 1..N |-> 0]
    /\ completed' = <<>>
    /\ result' = <<>>
    /\ batch' = "running"
    /\ UNCHANGED <<world, competitors, now, input, statusCache, authCache>>
    /\ UNCHANGED <<filterVars, parseVars, callVars, stageVars>>

InitRepeat ==
    /\ InitBatch("repeat", InputLists(InputCitations("repeat"), 1), RIVAL_AND_AUTHORITIES)
    /\ statusCache = <<>>
    /\ authCache = <<>>
    /\ FilterIdle
    /\ ParseIdle
    /\ CallsIdle
    /\ StageIdle

NextRepeat ==
    \/ \E i \in 1..N : CheckOriginal(i)
    \/ \E i \in 1..N : SpecificSearch(i)
    \/ \E i \in 1..N : AltSearch(i)
    \/ \E i \in 1..N : CandidateCheck(i)
    \/ \E i \in 1..N : AuthorityProbe(i)
    \/ \E i \in 1..N : Raise(i)
    \/ Aggregate
    \/ Tick
    \/ Again

SpecRepeat == InitRepeat /\ [][NextRepeat]_vars

\* ---- concurrent calls of _check_url_status on one URL, each suspended at
\* ---- its request while the others run and time passes

MaxCalls == 2

\* lines 200-208: the call reads the time and looks into the cache
StatusEnter(c) ==
    /\ world = "status"
    /\ calls[c].pc = "idle"
    /\ calls' = [calls EXCEPT ![c] =
                    IF CacheFresh(statusCache, now, PAGE_URL)
                    THEN [@ EXCEPT !.pc = "done", !.t0 = now, !.served = TRUE,
                                   !.valid = statusCache[PAGE_URL].valid]
                    ELSE [@ EXCEPT !.pc = "head", !.t0 = now]]
    /\ UNCHANGED <<orchVars, written, retry>>
    /\ UNCHANGED <<filterVars, parseVars, stageVars>>

\* lines 210-266: the answers arrive, the outcome is stored with the time
\* read on entry, the call returns
StatusAnswer(c) ==
    /\ world = "status"
    /\ calls[c].pc = "head"
    /\ \E head \in HeadResponses(PAGE_URL) :
        LET r == ProbeOutcome(statusCache, calls[c].t0, PAGE_URL, head, ErrorResp)
        IN  /\ statusCache' = r.cache
            /\ calls' = [calls EXCEPT ![c] = [@ EXCEPT !.pc = "done", !.valid = r.valid]]
            /\ written' = Append(written, r.cache[PAGE_URL].ts)
    /\ UNCHANGED <<world, competitors, now, input, citations, unit, validated, completed,
                   result, batch, authCache, retry>>
    /\ UNCHANGED <<filterVars, parseVars, stageVars>>

InitStatus ==
    /\ world = "status" /\ competitors = <<>> /\ now = START_TIME /\ input = <<>>
    /\ citations = <<>> /\ unit = <<>> /\ validated = <<>> /\ completed = <<>>
    /\ result = <<>> /\ batch = "idle"
    /\ statusCache = <<>> /\ authCache = <<>>
    /\ calls = [c \in 1..MaxCalls |->
                  [pc |-> "idle", t0 |-> 0, served |-> FALSE, valid |-> FALSE]]
    /\ written = <<>>
    /\ RetryIdle
    /\ StageIdle
    /\ FilterIdle
    /\ ParseIdle

NextStatus ==
    \/ \E c \in 1..MaxCalls : StatusEnter(c)
    \/ \E c \in 1..MaxCalls : StatusAnswer(c)
    \/ Tick

SpecStatus == InitStatus /\ [][NextStatus]_vars

\* ---- one call of GeminiClient.generate_content ---------------------------

MAX_RETRIES == 3

INITIAL_RETRY_WAIT == 5

RETRY_BACKOFF_MULTIPLIER == 2

NonRetryablePatterns ==
    { <<"a","u","t","h","e","n","t","i","c","a","t","i","o","n">>, <<"4","0","1">>, <<"4","0","3">>, <<"f","o","r","b","i","d","d","e","n">>, <<"u","n","a","u","t","h","o","r","i","z","e","d">>, <<"b","a","d"," ","r","e","q","u","e","s","t">>,
      <<"4","0","0">>, <<"i","n","v","a","l","i","d">>, <<"m","a","l","f","o","r","m","e","d">>, <<"a","p","i"," ","k","e","y">> }

RetryablePatterns ==
    { <<"r","a","t","e"," ","l","i","m","i","t">>, <<"4","2","9">>, <<"t","i","m","e","o","u","t">>, <<"c","o","n","n","e","c","t","i","o","n">>, <<"s","e","r","v","i","c","e"," ","u","n","a","v","a","i","l","a","b","l","e">>, <<"5","0","3">>,
      <<"t","e","m","p","o","r","a","r","i","l","y"," ","u","n","a","v","a","i","l","a","b","l","e">>, <<"d","e","a","d","l","i","n","e"," ","e","x","c","e","e","d","e","d">>, <<"r","e","s","o","u","r","c","e"," ","e","x","h","a","u","s","t","e","d">>, <<"q","u","o","t","a">> }

\* _is_retryable_error: a non-retryable pattern decides first, an unknown
\* error is retried
IsRetryableError(error) ==
    LET error_str == Lower(error)
    IN  IF \E p \in NonRetryablePatterns : Contains(error_str, p) THEN FALSE
        ELSE IF \E p \in RetryablePatterns : Contains(error_str, p) THEN TRUE
        ELSE TRUE

\* what one attempt ends in: the text of the exception, <<>> for a response
ApiOutcomes ==
    { <<>>, <<"4","2","9"," ","R","a","t","e"," ","l","i","m","i","t">>, <<"T","i","m","e","o","u","t"," ","o","f"," ","i","n","v","a","l","i","d"," ","r","e","q","u","e","s","t">>, <<"4","0","1"," ","U","n","a","u","t","h","o","r","i","z","e","d">>,
      <<"E","m","p","t","y"," ","r","e","s","p","o","n","s","e"," ","f","r","o","m"," ","G","e","m","i","n","i"," ","A","P","I">>, <<"5","0","3"," ","S","e","r","v","i","c","e"," ","U","n","a","v","a","i","l","a","b","l","e">>, <<"b","o","o","m">> }

\* a wait that does not grow
NextWaitConstant(w) == w

\* wait_time *= self.RETRY_BACKOFF_MULTIPLIER
NextWait(w) == w * RETRY_BACKOFF_MULTIPLIER

\* lines 333-413: one pass of "for attempt in range(self.MAX_RETRIES)" up to
\* its return, its raise, or its sleep
ApiAttempt ==
    /\ retry.pc = "call"
    /\ \E e \in ApiOutcomes :
        LET r == [retry EXCEPT !.calls = @ + 1]
        IN  retry' =
              IF e = <<>> THEN [r EXCEPT !.pc = "returned"]
              ELSE LET f == [r EXCEPT !.errors = Append(@, e)]
                   IN  IF ~IsRetryableError(e)
                       THEN [f EXCEPT !.pc = "raised", !.raised = "same"]
                       ELSE IF retry.attempt < MAX_RETRIES - 1
                       THEN [f EXCEPT !.pc = "sleep", !.slept = Append(@, retry.wait_time)]
                       ELSE [f EXCEPT !.pc = "raised", !.raised = "wrapped"]
    /\ UNCHANGED <<orchVars, filterVars, parseVars, calls, written, stageVars>>

\* lines 407-408: asyncio.sleep(wait_time) is over, the wait grows, the loop
\* goes on
Wake ==
    /\ retry.pc = "sleep"
    /\ retry' = [retry EXCEPT !.pc = "call", !.attempt = @ + 1,
                              !.wait_time = NextWait(@)]
    /\ UNCHANGED <<orchVars, filterVars, parseVars, calls, written, stageVars>>

InitRetry ==
    /\ retry = [pc |-> "call", attempt |-> 0, wait_time |-> INITIAL_RETRY_WAIT, calls |-> 0,
                errors |-> <<>>, slept |-> <<>>, raised |-> "none"]
    /\ calls = <<>> /\ written = <<>>
    /\ StageIdle
    /\ OrchIdle
    /\ FilterIdle
    /\ ParseIdle

NextRetry == ApiAttempt \/ Wake

SpecRetry == InitRetry /\ [][NextRetry]_vars

\* ---- one call of CitationsStage.execute ----------------------------------

\* lines 141-143: the domains of the generic fallbacks
GenericFallbackDomains ==
    << <<"p","e","w","r","e","s","e","a","r","c","h",".","o","r","g">>, <<"n","i","s","t",".","g","o","v">>, <<"c","e","n","s","u","s",".","g","o","v">>, <<"s","t","a","t","i","s","t","a",".","c","o","m">> >>

\* line 146: company_url.replace("https://", "").replace("http://", "").split("/")[0]
CompanyDomain(company_url) ==
    Split(SelectSeq(company_url, LAMBDA c : c \notin Schemes), "/")[1]

\* lines 138-169: the branch the loop takes for one citation of the validated list
RestoreNote(citation, original_urls, company_url) ==
    LET original_url == IF citation.number \in DOMAIN original_urls
                        THEN original_urls[citation.number] ELSE <<>>
    IN  IF original_url = <<>> \/ original_url = citation.url THEN "same"
        ELSE LET is_generic_fallback ==
                     \E d \in 1..Len(GenericFallbackDomains) :
                         Contains(Lower(citation.url), GenericFallbackDomains[d])
                 company_domain == CompanyDomain(company_url)
                 is_company_url == /\ company_domain # <<>>
                                   /\ Contains(Lower(original_url), company_domain)
             IN  IF is_generic_fallback THEN "generic fallback: not restored"
                 ELSE IF is_company_url THEN "company url: not restored"
                 ELSE "replaced"

\* the loop puts the original URL back where a generic fallback took its place
RestorePassRestoresOriginal(validated_list, original_urls, company_url) ==
    [citations_list |->
        [k \in 1..Len(validated_list) |->
            IF RestoreNote(validated_list[k], original_urls, company_url)
                   = "generic fallback: not restored"
            THEN [validated_list[k] EXCEPT !.url = original_urls[validated_list[k].number]]
            ELSE validated_list[k]],
     notes |-> <<>>]

\* lines 137-171: the loop over validated_list.citations writes to the log
\* only; citation_list = validated_list
RestorePass(validated_list, original_urls, company_url) ==
    [citations_list |-> validated_list,
     notes |-> [k \in 1..Len(validated_list) |->
                   RestoreNote(validated_list[k], original_urls, company_url)]]

\* lines 120-125: original_urls[citation.number] = citation.url
OriginalUrls(citation_list) ==
    [n \in {citation_list[k].number : k \in 1..Len(citation_list)} |->
        LET k == CHOOSE k \in 1..Len(citation_list) :
                     /\ citation_list[k].number = n
                     /\ \A j \in (k + 1)..Len(citation_list) : citation_list[j].number # n
        IN  citation_list[k].url]

\* lines 276-279: the CitationList made of the list validate_all_citations
\* returned; lines 281-284: citation_list itself when the call raised
ValidatedList ==
    IF batch = "raised" THEN citations
    ELSE [k \in 1..Len(result) |-> citations[result[k]]]

ValidationRuns == stage.enable_citation_validation /\ stage.company_url # <<>>

\* lines 120-131 and 209-237: validation is enabled and a company_url is set;
\* validate_all_citations is called
StageValidate ==
    /\ stage.pc = "parsed"
    /\ ValidationRuns
    /\ stage' = [stage EXCEPT !.pc = "validating", !.original_urls = OriginalUrls(citations)]
    /\ batch' = "running"
    /\ UNCHANGED <<world, competitors, now, input, citations, unit, validated, completed,
                   result, statusCache, authCache>>
    /\ UNCHANGED <<filterVars, parseVars, callVars>>

\* lines 137-171 and 178-184: the validated list is back; the loop runs and
\* the list is stored in context.parallel_results
StageStore ==
    /\ stage.pc = "validating"
    /\ batch \in {"returned", "raised"}
    /\ LET pass == RestorePass(ValidatedList, stage.original_urls, stage.company_url)
       IN  stage' = [stage EXCEPT !.pc = "stored", !.citations_list = pass.citations_list,
                                  !.notes = pass.notes]
    /\ UNCHANGED orchVars
    /\ UNCHANGED <<filterVars, parseVars, callVars>>

\* lines 172-184: validation is disabled or no company_url is set; the parsed
\* list is stored
StageSkip ==
    /\ stage.pc = "parsed"
    /\ ~ValidationRuns
    /\ stage' = [stage EXCEPT !.pc = "stored", !.original_urls = OriginalUrls(citations),
                              !.citations_list = citations]
    /\ UNCHANGED orchVars
    /\ UNCHANGED <<filterVars, parseVars, callVars>>

\* execute after _parse_sources has returned a list that is not empty
InitStage ==
    /\ world = "stage"
    /\ competitors = RIVAL_AND_AUTHORITIES
    /\ now = START_TIME
    /\ input \in UNION { InputLists(InputCitations("stage"), n) : n \in 1..MaxCitations }
    /\ citations = input
    /\ unit = [i \in 1..Len(input) |-> NewUnit]
    /\ validated = [i \in 1..Len(input) |-> 0]
    /\ completed = <<>>
    /\ result = <<>>
    /\ batch = "idle"
    /\ statusCache = <<>>
    /\ authCache = <<>>
    /\ \E enable \in BOOLEAN, company \in {<<>>, COMPANY_URL} :
          stage = [pc |-> "parsed", enable_citation_validation |-> enable,
                   company_url |-> company, original_urls |-> <<>>,
                   citations_list |-> <<>>, notes |-> <<>>]
    /\ FilterIdle
    /\ ParseIdle
    /\ CallsIdle

NextStage ==
    \/ StageValidate
    \/ StageSkip
    \/ StageStore
    \/ \E i \in 1..N : CheckOriginal(i)
    \/ \E i \in 1..N : SpecificSearch(i)
    \/ \E i \in 1..N : AltSearch(i)
    \/ \E i \in 1..N : CandidateCheck(i)
    \/ \E i \in 1..N : AuthorityProbe(i)
    \/ \E i \in 1..N : Raise(i)
    \/ Aggregate

SpecStage == InitStage /\ [][NextStage]_vars

\* ---- calls of _should_filter_url -------------------------------------------

FilterUrls ==
    { <<"https://","b","l","o","g",".","a","c","m","e",".","c","o","m","/","x">>, <<"https://","n","o","t","a","c","m","e",".","c","o","m">>, <<"https://","a","c","m","e",".","c","o","m","/">>,
      <<"https://","W","W","W",".","A","c","m","e",".","c","o","m","/","p">>, <<"https://","r","i","v","a","l",".","c","o","m","/","p">>, <<"https://","s","u","b",".","r","i","v","a","l",".","c","o","m">>,
      <<"https://","a","r","i","v","a","l",".","c","o","m","/">>, <<"https://","n","i","s","t",".","g","o","v","/","a","i","-","g","u","i","d","e","l","i","n","e","s">>,
      <<"https://","c","l","o","u","d",".","g","o","o","g","l","e",".","c","o","m","/","x">>, <<"https://","d","o","c","s",".","c","l","o","u","d",".","g","o","o","g","l","e",".","c","o","m","/">>, <<"n","o","t"," ","a"," ","u","r","l">> }

FilterCompanies == { <<>>, <<"a","c","m","e",".","c","o","m">>, <<"https://","a","c","m","e",".","c","o","m">>, <<"https://","w","w","w",".","a","c","m","e",".","c","o","m","/","a","b","o","u","t">> }

FilterCompetitorLists ==
    { <<>>, << <<"r","i","v","a","l",".","c","o","m">> >>, << <<"https://","w","w","w",".","r","i","v","a","l",".","c","o","m">> >>, << <<>>, <<"r","i","v","a","l",".","c","o","m">> >> }

InitFilter ==
    /\ fUrl \in FilterUrls
    /\ fCompany \in FilterCompanies
    /\ fCompetitors \in FilterCompetitorLists
    /\ fResult = FALSE
    /\ fPc = "called"
    /\ OrchIdle
    /\ ParseIdle
    /\ CallsIdle
    /\ StageIdle

FilterReturn ==
    /\ fPc = "called"
    /\ fResult' = ShouldFilterUrl(fUrl, fCompany, fCompetitors)
    /\ fPc' = "returned"
    /\ UNCHANGED <<fUrl, fCompany, fCompetitors, orchVars, parseVars, callVars, stageVars>>

SpecFilter == InitFilter /\ [][FilterReturn]_vars

\* ---- calls of _parse_sources ------------------------------------------------

MaxLines == 2

SourceLines ==
    { <<"[","5","]",":"," ","http://","a",".","c","o","m"," ","ndash"," ","A">>,
      <<"[","9","]",":"," ","http://","b",".","c","o","m"," ","ndash"," ","B">>,
      <<"[","2","]",":"," ","https://","x","-","y",".","o","r","g","/","p"," ","-"," ","T","i","t","l","e"," ","o","n","e">>,
      <<"[","1","]",":"," ","s","e","e"," ","https://","x","-","y",".","o","r","g","/","p">>,
      <<" ","[","9","]",":"," ","https://","b",".","c","o","m">>,
      <<"[","3","]",":"," ","/","b","l","o","g","/","p","o","s","t"," ","ndash"," ","R">>,
      <<"j","u","s","t"," ","p","r","o","s","e">>,
      <<>> }

InitParse ==
    /\ pLines \in UNION { [1..n -> SourceLines] : n \in 0..MaxLines }
    /\ pCitations = <<>>
    /\ pPc = "called"
    /\ OrchIdle
    /\ FilterIdle
    /\ CallsIdle
    /\ StageIdle

ParseReturn ==
    /\ pPc = "called"
    /\ pCitations' = ParseSources(pLines)
    /\ pPc' = "returned"
    /\ UNCHANGED <<pLines, orchVars, filterVars, callVars, stageVars>>

SpecParse == InitParse /\ [][ParseReturn]_vars

\* ========================================================================
\* Properties
\* ========================================================================

\* ---- under Spec: a batch of up to MaxCitations concurrent units ----------

\* C1: validate_all_citations returns a list of exactly N entries, and entry i
\* is the citation object that was at input position i (with the same number),
\* whatever the outcomes of the units and whatever the order they finish in.
C1_SameCountSameOrder ==
    batch = "returned" =>
        /\ Len(result) = N
        /\ \A i \in 1..N : result[i] = i /\ citations[result[i]].number = input[i].number

\* two units that finished in the reverse of their order, one with an
\* exception and one as invalid
C1_Witness ==
    /\ batch = "returned"
    /\ N = 2
    /\ completed = <<2, 1>>
    /\ unit[1].outcome = "exception"
    /\ unit[2].outcome = "invalid"

\* C2: validate_all_citations never raises; a citation whose unit raised keeps
\* its original url and title, and every other unit has run to completion and
\* has its citation in the list returned.
C2_ExceptionsStayInTheirUnit ==
    /\ batch # "raised"
    /\ \A i \in 1..N :
        unit[i].outcome = "exception" =>
            citations[i].url = input[i].url /\ citations[i].title = input[i].title
    /\ batch = "returned" =>
        \A i \in 1..N : unit[i].pc = "done" /\ \E k \in 1..Len(result) : result[k] = i

\* unit 1 raised before unit 2 finished, and unit 2 went on to replace its URL
C2_Witness ==
    /\ batch = "returned"
    /\ N = 2
    /\ completed = <<1, 2>>
    /\ unit[1].outcome = "exception"
    /\ unit[2].outcome = "valid"
    /\ citations[2].url # input[2].url

\* C4: every entry returned carries a valid/invalid marker, and the marker is
\* false exactly for the citations whose validation ended as invalid or with
\* an exception.
C4_EntriesCarryValidMarker ==
    batch = "returned" =>
        \A i \in 1..N :
            /\ "valid" \in DOMAIN citations[result[i]]
            /\ citations[result[i]].valid = (unit[i].outcome = "valid")

\* ---- under SpecUnit: one citation, every answer of the network -----------

C5_AcceptedUrlNotFiltered ==
    \A i \in 1..N : unit[i].outcome = "valid" => ~Filtered(citations[i].url)

\* C6: _find_alternative_url returns a URL of the assistant's response only if
\* _check_url_status classified that candidate as valid during the same call.
C6_CandidateReturnedOnlyIfLive ==
    \A i \in 1..N :
        unit[i].altFrom \in {"structured", "regex"} =>
            unit[i].altCand \in unit[i].candOk

\* the assistant marked a URL verified, the status check found it dead, and
\* the citation ended invalid
C6_Witness ==
    \E i \in 1..N :
        /\ unit[i].verifiedCand # <<>>
        /\ unit[i].verifiedCand \notin unit[i].candOk
        /\ unit[i].outcome = "invalid"

\* C7: every URL written into a citation as accepted, a deeper URL of the
\* specific-page step included, has itself been classified valid by
\* _check_url_status before the citation is finalised (a result served from
\* the authority cache was classified by an earlier call).
C7_AcceptedUrlWasStatusChecked ==
    \A i \in 1..N :
        unit[i].outcome = "valid" /\ unit[i].altFrom # "authcache" =>
            citations[i].url \in unit[i].okUrls

\* C8: a citation whose original URL is status-valid and not domain-filtered
\* has, after validation, the url and title it came with.
C8_ValidOriginalUnchanged ==
    \A i \in 1..N :
        /\ unit[i].pc = "done"
        /\ unit[i].outcome # "exception"
        /\ unit[i].origValid
        /\ ~Filtered(input[i].url)
        /\ ~Filtered(unit[i].resolved)
        => citations[i].url = input[i].url /\ citations[i].title = input[i].title

\* ---- under SpecParse -----------------------------------------------------

\* the positions of the lines that gave a citation
RECURSIVE KeptLines(_, _)
KeptLines(lines, k) ==
    IF k > Len(lines) THEN <<>>
    ELSE (IF ParseLine(lines[k]) # <<>> THEN <<k>> ELSE <<>>) \o KeptLines(lines, k + 1)

\* C9: the k citations of _parse_sources are numbered exactly 1..k in the
\* order of their source lines, whatever numbers the text carries.
C9_NumberedInLineOrder ==
    pPc = "returned" =>
        LET kept == KeptLines(pLines, 1)
        IN  /\ Len(pCitations) = Len(kept)
            /\ \A k \in 1..Len(pCitations) :
                /\ pCitations[k].number = k
                /\ pCitations[k].url = ParseLine(pLines[kept[k]])[1].url
                /\ pCitations[k].title = ParseLine(pLines[kept[k]])[1].title

\* the text numbers its two lines 5 and 9
C9_Witness ==
    /\ pPc = "returned"
    /\ pLines = << <<"[","5","]",":"," ","http://","a",".","c","o","m"," ","ndash"," ","A">>, <<"[","9","]",":"," ","http://","b",".","c","o","m"," ","ndash"," ","B">> >>
    /\ Len(pCitations) = 2
    /\ pCitations[1].url = <<"http://","a",".","c","o","m">>
    /\ pCitations[2].url = <<"http://","b",".","c","o","m">>

\* ---- under SpecFilter ----------------------------------------------------

\* the host an entry of the exclusion set names, given with or without scheme
ExcludedHost(entry) ==
    NormalizeHostname(Netloc(IF HasScheme(entry) THEN entry ELSE <<"https://">> \o entry))

\* C10: _should_filter_url is true whenever the URL's normalized host equals,
\* or ends with "." + root for, the own-domain host or a competitor host, and
\* false when it only contains a root without a label boundary.
C10_FilterMatchesOnLabelBoundary ==
    fPc = "returned" =>
        LET host  == NormalizeHostname(Netloc(fUrl))
            roots == ({ ExcludedHost(fCompany) }
                      \cup { ExcludedHost(fCompetitors[k]) : k \in 1..Len(fCompetitors) })
                     \ { <<>> }
            hit   == \E root \in roots : host = root \/ EndsWith(host, <<".">> \o root)
        IN  host # <<>> =>
                /\ hit => fResult
                /\ ~hit /\ host \notin FORBIDDEN_HOSTS => ~fResult

\* C11: a URL that does not parse to a host is not filtered, whatever the
\* exclusion set: a company URL without scheme, an empty competitor entry.
C11_UnparsedUrlNotFiltered ==
    fPc = "returned" /\ NormalizeHostname(Netloc(fUrl)) = <<>> => ~fResult

\* C17: a URL whose normalized host is a forbidden host or a subdomain of one
\* is filtered.
C17_ForbiddenSubdomainFiltered ==
    fPc = "returned" =>
        LET host == NormalizeHostname(Netloc(fUrl))
        IN  (\E f \in FORBIDDEN_HOSTS : host = f \/ EndsWith(host, <<".">> \o f)) => fResult

\* the awaits of validate_citation_url at which a unit can stand: each is the
\* pc of one action, whose only other condition is MayRun
AwaitPoints == {"start", "specific", "alt", "cand", "auth"}

C13_EveryProbeOutcomeStored ==
    \A i \in 1..N :
        LET p == unit[i].probe
        IN  p.url # <<>> /\ p.requests # <<>> => p.stored

\* C14: while the assistant's answer to the search for an alternative is awaited,
\* the authority cache holds no fresh entry for the query.
C14_AuthorityCacheBeforeAssistant ==
    \A i \in 1..N :
        unit[i].pc = "alt" => ~AuthFresh(authCache, now, AuthorityCacheKey(SearchQuery(i)))

\* C15: a unit that searched for an alternative and ended without one has
\* entered the authority fallback.
C15_NoneOnlyAfterAuthorityFallback ==
    \A i \in 1..N :
        unit[i].pc = "done" /\ unit[i].outcome = "invalid" /\ unit[i].altCalls = 1
            => unit[i].tier2.entered

\* C18: the classification of a probe of a URL without a cache entry: 200 is
\* valid unless the URL reached is an error page; 404 is invalid with the HEAD
\* request alone; a 3xx status is followed by one GET request, whose answer is
\* classified by the 200 rule; everything else is invalid.
C18_ProbeClassification ==
    \A i \in 1..N :
        LET p == unit[i].probe
        IN  p.url # <<>> /\ ~p.hadEntry =>
                IF p.head.kind # "resp" THEN ~p.valid
                ELSE IF p.head.status = 200
                THEN p.requests = <<"HEAD">> /\ (p.valid <=> ~IsErrorPageUrl(p.head.url))
                ELSE IF p.head.status = 404
                THEN p.requests = <<"HEAD">> /\ ~p.valid
                ELSE IF p.head.status \in 300..399
                THEN /\ p.requests = <<"HEAD", "GET">>
                     /\ p.valid <=> /\ p.get.kind = "resp"
                                    /\ p.get.status = 200
                                    /\ ~IsErrorPageUrl(p.get.url)
                ELSE ~p.valid

\* the URLs of the first keyword set, in declared order, that matches the query
FirstMatchingSetUrls(query_lower) ==
    LET ms == { p \in 1..Len(AuthorityPatterns) :
                  PatternMatches(AuthorityPatterns[p], query_lower) }
    IN  IF ms = {} THEN {}
        ELSE LET first == CHOOSE p \in ms : \A q \in ms : p <= q
             IN  { AuthorityPatterns[first].urls[k].url :
                     k \in 1..Len(AuthorityPatterns[first].urls) }

\* C19: every URL the authority fallback probes belongs to the first keyword
\* set that matches the query.
C19_OnlyFirstMatchingSetProbed ==
    \A i \in 1..N :
        \A k \in 1..Len(unit[i].probed) :
            unit[i].probed[k] \in FirstMatchingSetUrls(Lower(SearchQuery(i)))

\* C20: a call of _try_authority_fallback that finds an entry for its key
\* returns it without a status probe exactly if the entry was written less
\* than 180 s ago.
C20_StoredResultServedFor180s ==
    \A i \in 1..N :
        LET t == unit[i].tier2
        IN  t.entered /\ t.hadEntry => (t.served <=> t.sinceWrite < CACHE_TTL)

\* two URLs on one domain: equal hosts, or one host a subdomain of the other
SameDomain(a, b) ==
    LET ha == NormalizeHostname(Netloc(a))
        hb == NormalizeHostname(Netloc(b))
    IN  ha = hb \/ IsSubdomain(ha, hb) \/ IsSubdomain(hb, ha)

\* C21: after the specific-page step, final_url differs from the URL the status
\* check resolved only by a specific page on the same domain.
C21_SpecificPageOnSameDomain ==
    \A i \in 1..N :
        unit[i].pc \in {"alt", "cand", "auth"} /\ unit[i].final # unit[i].resolved =>
            /\ IsSpecificPageUrl(unit[i].final)
            /\ SameDomain(unit[i].final, unit[i].resolved)

\* C22: no unit is left at an await that nothing ends: every call a unit
\* awaits is answered or cut off by its timeout.
C22_NoUnitWaitsForEver ==
    \A i \in 1..N : unit[i].pc # "hung"

\* C23: the timestamps stored for the URL never decrease from one write to the
\* next, and the entry in the cache carries the timestamp written last.
C23_StoredTimestampNeverDecreases ==
    /\ \A k \in 1..(Len(written) - 1) : written[k] <= written[k + 1]
    /\ written # <<>> => statusCache[PAGE_URL].ts = written[Len(written)]

\* ---- under SpecParse ----------------------------------------------------

\* the URL token of a line: from the first scheme up to the first whitespace,
\* without trailing sentence punctuation
UrlToken(line) ==
    LET i    == CHOOSE i \in 1..Len(line) :
                    line[i] \in Schemes /\ \A j \in 1..(i - 1) : line[j] \notin Schemes
        tail == SubSeq(line, i, Len(line))
    IN  RStrip(SubSeq(tail, 1, FirstIn(tail, Space) - 1), TrailingPunct)

\* C24: the url of every citation is the complete URL token of its line.
C24_UrlIsWholeToken ==
    pPc = "returned" =>
        LET kept == KeptLines(pLines, 1)
        IN  \A k \in 1..Len(pCitations) :
                k <= Len(kept) => pCitations[k].url = UrlToken(pLines[kept[k]])

\* an http:// or https:// occurs in the line
HasAbsoluteUrl(line) == \E i \in 1..Len(line) : line[i] \in Schemes

C26_AttemptsWithinMaxAttempts ==
    \A i \in 1..N : unit[i].attempts <= max_attempts

\* ---- under SpecRetry ------------------------------------------------------

\* C27: at most 3 attempts; a return follows the first attempt that succeeds;
\* a non-retryable error is raised again at once; the sleeps between the
\* retryable failures are 5 s then 10 s, none after the last attempt; after
\* 3 failed attempts the call raises.
C27_ThreeAttemptsWithBackoff ==
    LET n      == Len(retry.errors)
        early  == { k \in 1..(n - 1) : ~IsRetryableError(retry.errors[k]) }
        sleeps == <<5, 10>>
    IN  /\ retry.calls <= 3
        /\ early = {}
        /\ Len(retry.slept) <= 2
        /\ retry.slept = SubSeq(sleeps, 1, Len(retry.slept))
        /\ retry.pc = "returned" => retry.calls = n + 1 /\ Len(retry.slept) = n
        /\ retry.pc = "raised" =>
              /\ retry.calls = n
              /\ Len(retry.slept) = n - 1
              /\ IF IsRetryableError(retry.errors[n])
                 THEN n = 3 /\ retry.raised = "wrapped"
                 ELSE retry.raised = "same"
        /\ retry.pc \in {"call", "sleep"} => retry.calls < 3

\* three retryable failures: two sleeps, then the raise
C27_Witness ==
    /\ retry.pc = "raised"
    /\ retry.calls = 3
    /\ retry.slept = <<5, 10>>
    /\ retry.raised = "wrapped"

\* ---- under SpecUnit ------------------------------------------------------

\* C28: a unit searches for an alternative at most once, after the status check
\* of its original URL, and only if that check said invalid or the URL, as
\* given or as resolved, is filtered.
C28_AlternativeOnlyForInvalidOrFiltered ==
    \A i \in 1..N :
        /\ unit[i].altCalls <= 1
        /\ unit[i].altCalls = 1 =>
              /\ unit[i].resolved # <<>>
              /\ \/ ~unit[i].origValid
                 \/ Filtered(input[i].url)
                 \/ Filtered(unit[i].resolved)

\* ---- under Spec ----------------------------------------------------------

\* a step writes at most the url and the title of the citation of the one
\* unit that ends in it
C29_Step ==
    \A i \in 1..N :
        /\ citations'[i].number = citations[i].number
        /\ citations'[i] # citations[i] =>
              /\ unit[i].pc # "done" /\ unit'[i].pc = "done"
              /\ \A j \in 1..N : j # i => citations'[j] = citations[j]

\* C29: the citations stay numbered 1..N in their positions, and every step
\* leaves all citations alone but the one of the unit that ends in it, of
\* which it writes url and title only.
C29_OnlyOwnUrlAndTitleWritten ==
    /\ [](Len(citations) = N /\ \A i \in 1..N : citations[i].number = i)
    /\ [][C29_Step]_vars

\* the second unit has replaced its URL while the first is still running
C29_Witness ==
    /\ N = 2
    /\ unit[2].pc = "done" /\ unit[1].pc \notin {"start", "done"}
    /\ citations[2].url # input[2].url
    /\ citations[1] = input[1]

\* ---- under SpecStage -----------------------------------------------------

====
